---- MODULE Spec2Model ----
(***************************************************************************)
(* Astral Motors: the financing engine of the application (plans, commit   *)
(* of a saved plan into an active loan, payments, payment schedule) as a   *)
(* state machine over the React state of App, MyTimelinePage and           *)
(* PaymentModal.                                                           *)
(*                                                                         *)
(* Numbers.  JavaScript numbers are doubles; here money is an integer      *)
(* number of mills (1/1000 dollar), so that amounts below one cent exist   *)
(* and floorToCent is not the identity.  Annual rates are integers in      *)
(* thousandths (0.065 is 65).  Divisions floor to the mill.                *)
(* Dates are records [y, m, d] with m in 0..11 as Date.getMonth() returns  *)
(* it; the time of day is kept only as a small within-day counter ms.      *)
(***************************************************************************)
EXTENDS Integers, Sequences, FiniteSets, TLC

VARIABLES
    now,          \* the local calendar date the clock shows
    ms,           \* within-day clock reading (what tells two Date.now() apart)
    userData,     \* App: userData {userInput, savedAlignments, activeLoans}
    modal,        \* MyTimelinePage: paymentModalState {isOpen, loan}
    amount,       \* PaymentModal: amount
    paymentStatus,\* PaymentModal: paymentStatus
    timers,       \* pending setTimeout(onClose, 1500) callbacks
    paid,         \* history: per loan (by position) the sum of amounts submitted
    events,       \* history: number of events handled so far
    calc,         \* FinancingPage props: the price of the vehicle shown
    users,        \* databaseService: db.users in localStorage (empty: no database)
    session,      \* databaseService: the username of the session in localStorage
    currentUser,  \* App: currentUser (a username, 'guest' or null)
    pending,      \* Login: pending setTimeout callbacks of handleLogin / handleSignUp
    origin,       \* history: where the userData of the App was taken from
    tab           \* userData of a second App of the same session (another tab)

vars == <<now, ms, userData, modal, amount, paymentStatus, timers, paid, events, calc,
          users, session, currentUser, pending, origin, tab>>

NoLoan == [id |-> <<>>]
\* no second App is open
NoSession == [username |-> <<>>]
\* userData is null
NoData == [userData |-> <<>>]
\* currentUser, or the username of the session, is null
NoUser == "(null)"

-----------------------------------------------------------------------------
(* Bounds of the model *)

MaxEvents == 5     \* events (clicks, inputs, timers, days passing) in one run

-----------------------------------------------------------------------------
(* Calendar arithmetic of the JavaScript Date *)

IsLeap(y) == (y % 4 = 0 /\ y % 100 /= 0) \/ y % 400 = 0

DaysInMonth(y, m) ==
    IF m = 1 THEN (IF IsLeap(y) THEN 29 ELSE 28)
    ELSE IF m \in {3, 5, 8, 10} THEN 30 ELSE 31

\* new Date(y, m, d): a month index past 11 carries into the year, a day past
\* the end of the month carries into the following month(s).
RECURSIVE MakeDate(_, _, _)
MakeDate(y, m, d) ==
    LET yy == y + (m \div 12)
        mm == m % 12
        dim == DaysInMonth(yy, mm)
    IN  IF d <= dim THEN [y |-> yy, m |-> mm, d |-> d]
        ELSE MakeDate(yy, mm + 1, d - dim)

RECURSIVE DaysBeforeMonth(_, _)
DaysBeforeMonth(y, m) ==
    IF m = 0 THEN 0 ELSE DaysBeforeMonth(y, m - 1) + DaysInMonth(y, m - 1)

\* Date.getTime() at local midnight, counted in days
DayNumber(date) ==
    LET p == date.y - 1
    IN  365 * p + (p \div 4) - (p \div 100) + (p \div 400)
        + DaysBeforeMonth(date.y, date.m) + date.d

NextDay(date) == MakeDate(date.y, date.m, date.d + 1)

\* The dates the clock takes in the model
Calendar ==
    { [y |-> 2024, m |-> 6, d |-> 31], [y |-> 2024, m |-> 7, d |-> 1],
      [y |-> 2024, m |-> 11, d |-> 31], [y |-> 2025, m |-> 0, d |-> 1] }

StartDate == [y |-> 2024, m |-> 6, d |-> 31]

\* A handler that reads the clock twice: both reads on the same day, or the
\* day changes between them.
SecondRead(first) == {first} \cup ({NextDay(first)} \cap Calendar)

\* The within-day readings of the clock: enough to tell two reads at the same
\* instant from two reads at different instants
MsReadings == {0, 1}

-----------------------------------------------------------------------------
(* Money *)

MillsPerCent == 10
MillsPerDollar == 1000

Max(a, b) == IF a >= b THEN a ELSE b
Min(a, b) == IF a <= b THEN a ELSE b

\* Math.floor(num * 100) / 100
floorToCent(num) == (num \div MillsPerCent) * MillsPerCent

-----------------------------------------------------------------------------
(* Rate model and plan calculators *)

\* getInterestRate with the best rate only above 760
getInterestRateAbove(score) ==
    IF score > 760 THEN 50
    ELSE IF score >= 700 THEN 65
    ELSE IF score >= 650 THEN 80
    ELSE IF score >= 600 THEN 120
    ELSE 180

\* the annual rate in thousandths (0.065 is 65)
getInterestRate(score) ==
    IF score >= 760 THEN 50
    ELSE IF score >= 700 THEN 65
    ELSE IF score >= 650 THEN 80
    ELSE IF score >= 600 THEN 120
    ELSE 180

RateDen == 1000      \* rates are thousandths
PowScale == 100000   \* fixed-point scale of Math.pow(1 + monthlyRate, n)

\* Math.pow(1 + monthlyRate, n), monthlyRate = rate / 12, scaled by PowScale
TimesOnePlus(p, rate) == p + ((p * rate) \div (12 * RateDen))
TimesOnePlus4(p, rate) ==
    TimesOnePlus(TimesOnePlus(TimesOnePlus(TimesOnePlus(p, rate), rate), rate), rate)
TimesOnePlus12(p, rate) ==
    TimesOnePlus4(TimesOnePlus4(TimesOnePlus4(p, rate), rate), rate)
RECURSIVE PowOnePlus(_, _)
PowOnePlus(rate, n) ==
    IF n = 0 THEN PowScale
    ELSE IF n >= 12
         THEN CHOOSE r \in {TimesOnePlus12(p, rate) : p \in {PowOnePlus(rate, n - 12)}} : TRUE
    ELSE TimesOnePlus(PowOnePlus(rate, n - 1), rate)

\* the two values of a double that are not finite
Infinity == 2147483647
NaN == -2147483647
isFinite(x) == x /= Infinity /\ x /= NaN

\* loanAmount * (monthlyRate * pow) / (pow - 1) for loanAmount > 0: with no
\* payments, or a zero rate, pow is exactly 1 and the division is by zero
Annuity(loanAmount, rate, n) ==
    LET pow == PowOnePlus(rate, n)
    IN  IF pow = PowScale
        THEN IF rate = 0 THEN NaN ELSE Infinity
        ELSE ((loanAmount \div MillsPerDollar)
                  * ((rate * pow) \div (pow - PowScale))) \div 12

\* (monthlyPayment * numberOfPayments) + downPayment in doubles
TotalCost(monthlyPayment, numberOfPayments, downPayment) ==
    IF monthlyPayment = NaN THEN NaN
    ELSE IF monthlyPayment = Infinity
         THEN IF numberOfPayments = 0 THEN NaN ELSE Infinity
    ELSE (monthlyPayment * numberOfPayments) + downPayment

financingPlan(price, userInput, interestRate) ==
    LET downPayment == userInput.downPayment
        loanTerm == userInput.loanTerm
        loanAmount == price - downPayment
        numberOfPayments == loanTerm * 12
        monthlyPayment == IF loanAmount > 0
                          THEN Annuity(loanAmount, interestRate, numberOfPayments)
                          ELSE 0
        totalCost == TotalCost(monthlyPayment, numberOfPayments, downPayment)
    IN  [planType |-> "Financing", monthlyPayment |-> monthlyPayment,
         totalCost |-> totalCost, interestRate |-> interestRate,
         loanAmount |-> loanAmount, loanTerm |-> loanTerm]

\* the payment of a loan without interest
calculateMonthlyPaymentNoInterest(principal, annualRate, years) ==
    IF principal <= 0 THEN 0
    ELSE IF years = 0 THEN Infinity
    ELSE principal \div (years * 12)

calculateMonthlyPayment(principal, annualRate, years) ==
    IF principal <= 0 THEN 0
    ELSE IF annualRate = 0
         THEN IF years = 0 THEN Infinity ELSE principal \div (years * 12)
    ELSE Annuity(principal, annualRate, years * 12)

\* finalVehicleRecommendations: the plan on the card of one vehicle
cardPlan(price, userInput, interestRate) ==
    LET loanAmount == price - userInput.downPayment
        monthlyPayment == calculateMonthlyPayment(loanAmount, interestRate,
                                                  userInput.loanTerm)
    IN  [monthlyPayment |-> monthlyPayment,
         totalCost |-> TotalCost(monthlyPayment, userInput.loanTerm * 12,
                                 userInput.downPayment),
         interestRate |-> interestRate, loanAmount |-> loanAmount]

\* maxMonthlyPayment * ((pow - 1) / (monthlyRate * pow)) + downPayment, with
\* (pow - 1) / pow kept in thousandths
affordablePriceRange(userInput) ==
    LET maxMonthlyPayment == ((userInput.income \div 12) * 15) \div 100
        interestRate == getInterestRate(userInput.creditScore)
        pow == PowOnePlus(interestRate, userInput.loanTerm * 12)
        maxLoanAmount ==
            IF interestRate = 0 THEN NaN
            ELSE ((maxMonthlyPayment \div interestRate) * 12)
                     * ((pow - PowScale) \div (pow \div RateDen))
        maxCarPrice == IF maxLoanAmount = NaN THEN NaN
                       ELSE maxLoanAmount + userInput.downPayment
    IN  [min |-> IF maxCarPrice = NaN THEN NaN ELSE (maxCarPrice \div 10) * 7,
         max |-> maxCarPrice]

leaseTermMonths == 36
residualValuePct == 55
moneyFactorDiv == 2400

\* leasingPlan without its finance fee
leasingPlanDepreciationOnly(price, userInput, interestRate) ==
    LET residualValue == (price \div 100) * residualValuePct
        capitalizedCost == price - userInput.downPayment
        depreciationFee == (capitalizedCost - residualValue) \div leaseTermMonths
        monthlyPayment == depreciationFee
    IN  [planType |-> "Leasing", monthlyPayment |-> monthlyPayment,
         dueAtSigning |-> userInput.downPayment + monthlyPayment,
         term |-> leaseTermMonths,
         moneyFactor |-> [num |-> interestRate, den |-> moneyFactorDiv * RateDen],
         residualValue |-> residualValue]

leasingPlan(price, userInput, interestRate) ==
    LET residualValue == (price \div 100) * residualValuePct
        capitalizedCost == price - userInput.downPayment
        depreciationFee == (capitalizedCost - residualValue) \div leaseTermMonths
        financeFee == (((capitalizedCost + residualValue) \div MillsPerDollar)
                          * interestRate) \div moneyFactorDiv
        monthlyPayment == depreciationFee + financeFee
    IN  [planType |-> "Leasing", monthlyPayment |-> monthlyPayment,
         dueAtSigning |-> userInput.downPayment + monthlyPayment,
         term |-> leaseTermMonths,
         moneyFactor |-> [num |-> interestRate, den |-> moneyFactorDiv * RateDen],
         residualValue |-> residualValue]

-----------------------------------------------------------------------------
(* The fleet and the inputs of the finance controls *)

Vehicles == { [model |-> "RAV4", price |-> 28000000, image |-> "RAV4.jpg"] }

DownPayments == {5000000, 30000000}
LoanTerms == {5}
CreditScores == {810}
PlanTypes == {"Financing", "Leasing"}

\* what the amount field of the payment form can be set to
AmountInputs == {-1000000, 5, 50000000}

GalaxyColors == 7

\* databaseService.getDefaultUserData
getDefaultUserData ==
    [userInput |-> [income |-> 75000000, creditScore |-> 720,
                    downPayment |-> 5000000, loanTerm |-> 5],
     savedAlignments |-> <<>>,
     activeLoans |-> <<>>,
     chatbotConversations |-> <<>>]

\* databaseService.initializeDatabase: the loan of the seeded user 'voyager',
\* started a year before the day the database is created
voyagerLoan(created) ==
    [id |-> <<"loan-1678886400000-RAV4">>, vehicleModel |-> "RAV4", imageUrl |-> "RAV4.jpg",
     monthlyPayment |-> 550750, totalCost |-> 33045000,
     loanStartDate |-> MakeDate(created.y - 1, created.m, created.d),
     loanTermInMonths |-> 60, paymentDayOfMonth |-> 15, color |-> 1,
     amountLeft |-> 26436000, planType |-> "Financing",
     initialLoanAmount |-> 33045000]

\* the data of the seeded user 'voyager'
voyagerData(created) ==
    [getDefaultUserData EXCEPT
        !.userInput = [@ EXCEPT !.income = 120000000, !.creditScore = 810,
                                !.downPayment = 20000000],
        !.activeLoans = <<voyagerLoan(created)>>]

Has(rec, f) == f \in DOMAIN rec

-----------------------------------------------------------------------------
(* App: the updaters of userData *)

\* Date.now() / new Date() as a comparable instant
Instant(date, t) == [day |-> DayNumber(date), ms |-> t]
InstantLess(a, b) == a.day < b.day \/ (a.day = b.day /\ a.ms < b.ms)

\* Array.prototype.sort with (a, b) => time(b.savedAt) - time(a.savedAt): stable,
\* newest first
RECURSIVE InsertBySavedAt(_, _)
InsertBySavedAt(sorted, a) ==
    IF sorted = <<>> THEN <<a>>
    ELSE IF InstantLess(Head(sorted).savedAt, a.savedAt)
         THEN <<a>> \o sorted
         ELSE <<Head(sorted)>> \o InsertBySavedAt(Tail(sorted), a)

RECURSIVE SortBySavedAt(_)
SortBySavedAt(seq) ==
    IF seq = <<>> THEN <<>>
    ELSE InsertBySavedAt(SortBySavedAt(SubSeq(seq, 1, Len(seq) - 1)), seq[Len(seq)])

handleSaveAlignment(prev, alignment) ==
    [prev EXCEPT !.savedAlignments = SortBySavedAt(<<alignment>> \o prev.savedAlignments)]

handleDeleteAlignment(prev, id) ==
    [prev EXCEPT !.savedAlignments = SelectSeq(prev.savedAlignments, LAMBDA a : a.id /= id)]

\* handleClearAllAlignments emptying the ledger as well
ClearAllWithLoans(prev) ==
    [prev EXCEPT !.savedAlignments = <<>>, !.activeLoans = <<>>]

handleClearAllAlignments(prev) == [prev EXCEPT !.savedAlignments = <<>>]

\* a conversation of the chatbot: its messages
Conversations == { <<"user: hello", "model: hello">> }

handleSaveConversation(prev, conversation) ==
    [prev EXCEPT !.chatbotConversations = <<conversation>> \o @]

setUserInput(prev, newUserInput) == [prev EXCEPT !.userInput = newUserInput]

\* savedAlignments.find(a => a.id === alignmentId): the first one, or none
FindAlignment(alignments, alignmentId) ==
    LET hits == SelectSeq(alignments, LAMBDA a : a.id = alignmentId)
    IN  IF hits = <<>> THEN <<>> ELSE <<hits[1]>>

LoanExists(loans, id) == \E i \in 1..Len(loans) : loans[i].id = id

\* newLoan with the term of a financing plan left in years
NewLoanTermInYears(prev, a, startRead, dayRead) ==
    IF a.plan.planType = "Financing"
    THEN [id |-> a.id, vehicleModel |-> a.vehicle.model, imageUrl |-> a.vehicle.image,
          monthlyPayment |-> a.plan.monthlyPayment, totalCost |-> a.plan.totalCost,
          loanStartDate |-> startRead, loanTermInMonths |-> a.plan.loanTerm,
          paymentDayOfMonth |-> dayRead.d,
          color |-> Len(prev.activeLoans) % GalaxyColors,
          amountLeft |-> a.plan.loanAmount, planType |-> "Financing",
          initialLoanAmount |-> a.plan.loanAmount]
    ELSE [id |-> a.id, vehicleModel |-> a.vehicle.model, imageUrl |-> a.vehicle.image,
          monthlyPayment |-> a.plan.monthlyPayment,
          totalCost |-> a.plan.monthlyPayment * a.plan.term,
          loanStartDate |-> startRead, loanTermInMonths |-> a.plan.term,
          paymentDayOfMonth |-> dayRead.d,
          color |-> Len(prev.activeLoans) % GalaxyColors,
          amountLeft |-> 0, planType |-> "Leasing"]


\* The loan built from an alignment; startRead and dayRead are the two reads
\* of the clock (loanStartDate, paymentDayOfMonth).
NewLoan(prev, a, startRead, dayRead) ==
    IF a.plan.planType = "Financing"
    THEN [id |-> a.id, vehicleModel |-> a.vehicle.model, imageUrl |-> a.vehicle.image,
          monthlyPayment |-> a.plan.monthlyPayment, totalCost |-> a.plan.totalCost,
          loanStartDate |-> startRead, loanTermInMonths |-> a.plan.loanTerm * 12,
          paymentDayOfMonth |-> dayRead.d,
          color |-> Len(prev.activeLoans) % GalaxyColors,
          amountLeft |-> a.plan.loanAmount, planType |-> "Financing",
          initialLoanAmount |-> a.plan.loanAmount]
    ELSE [id |-> a.id, vehicleModel |-> a.vehicle.model, imageUrl |-> a.vehicle.image,
          monthlyPayment |-> a.plan.monthlyPayment,
          totalCost |-> a.plan.monthlyPayment * a.plan.term,
          loanStartDate |-> startRead, loanTermInMonths |-> a.plan.term,
          paymentDayOfMonth |-> dayRead.d,
          color |-> Len(prev.activeLoans) % GalaxyColors,
          amountLeft |-> 0, planType |-> "Leasing"]

\* handleCommitAlignment without its loanExists test
CommitWithoutExistsTest(prev, alignmentId, startRead, dayRead) ==
    LET found == FindAlignment(prev.savedAlignments, alignmentId)
    IN  IF found = <<>> THEN prev
        ELSE [prev EXCEPT !.activeLoans =
                  Append(prev.activeLoans, NewLoan(prev, found[1], startRead, dayRead))]

handleCommitAlignment(prev, alignmentId, startRead, dayRead) ==
    LET found == FindAlignment(prev.savedAlignments, alignmentId)
    IN  IF found = <<>> THEN prev
        ELSE IF LoanExists(prev.activeLoans, found[1].id) THEN prev
        ELSE [prev EXCEPT !.activeLoans =
                  Append(prev.activeLoans, NewLoan(prev, found[1], startRead, dayRead))]

\* getFullYear() * 100 + getMonth(), the year and the month read separately
MonthIdentifier(yearRead, monthRead) == yearRead.y * 100 + monthRead.m

\* PayLoan without its test of the id
PayEveryLoan(loan, loanId, amt, yearRead, monthRead) ==
    IF loan.planType = "Leasing"
    THEN [lastPaymentMonth |-> MonthIdentifier(yearRead, monthRead)] @@ loan
    ELSE [loan EXCEPT !.amountLeft = Max(0, loan.amountLeft - amt)]

PayLoan(loan, loanId, amt, yearRead, monthRead) ==
    IF loan.id = loanId
    THEN IF loan.planType = "Leasing"
         THEN [lastPaymentMonth |-> MonthIdentifier(yearRead, monthRead)] @@ loan
         ELSE [loan EXCEPT !.amountLeft = Max(0, loan.amountLeft - amt)]
    ELSE loan

handleMakePayment(prev, loanId, amt, yearRead, monthRead) ==
    [prev EXCEPT !.activeLoans =
        [i \in 1..Len(prev.activeLoans) |->
            PayLoan(prev.activeLoans[i], loanId, amt, yearRead, monthRead)]]

-----------------------------------------------------------------------------
(* MyTimelinePage and PaymentModal *)

\* new Date().getFullYear() * 100 + new Date().getMonth() at render
paymentMadeThisMonth(loan, today) ==
    /\ loan.planType = "Leasing"
    /\ Has(loan, "lastPaymentMonth")
    /\ loan.lastPaymentMonth = MonthIdentifier(today, today)

\* the Pay button of a lease testing the month as the calendar writes it (1..12)
PayDisabledCalendarMonth(loan, today) ==
    IF loan.planType = "Leasing"
    THEN /\ Has(loan, "lastPaymentMonth")
         /\ loan.lastPaymentMonth = today.y * 100 + today.m + 1
    ELSE loan.amountLeft <= 0

\* the disabled attribute of the Pay button
PayDisabled(loan, today) ==
    IF loan.planType = "Leasing" THEN paymentMadeThisMonth(loan, today)
    ELSE loan.amountLeft <= 0

PayLabel(loan, today) ==
    IF loan.planType = "Leasing"
    THEN (IF paymentMadeThisMonth(loan, today) THEN "Paid this month" ELSE "Pay")
    ELSE (IF loan.amountLeft <= 0 THEN "Paid Off" ELSE "Pay")

\* the effect of PaymentModal on [isOpen, loan]: the amount the form starts with
DefaultAmount(loan) ==
    IF loan.planType = "Leasing" THEN floorToCent(loan.monthlyPayment)
    ELSE floorToCent(Min(loan.monthlyPayment, loan.amountLeft))

LoanIndex(loans, id) == CHOOSE i \in 1..Len(loans) : loans[i].id = id

\* a / b >= c on JavaScript numbers, c an integer: a division by zero gives
\* Infinity, -Infinity or NaN, and a comparison with NaN is false
RatioAtLeast(a, b, c) ==
    IF b > 0 THEN a >= c * b
    ELSE IF b < 0 THEN a <= c * b
    ELSE a > 0

\* today.getDate() >= paymentDayOfMonth adds the payment of the current month
paymentsDue(vehicle, today) ==
    LET startDate == vehicle.loanStartDate
        monthsPassed == (today.y - startDate.y) * 12 + (today.m - startDate.m)
    IN  IF today.d >= vehicle.paymentDayOfMonth THEN monthsPassed + 1 ELSE monthsPassed

\* getOnTrackStatus with the month of a lease counted 1..12
getOnTrackStatusCalendarMonth(vehicle, today) ==
    IF vehicle.planType = "Leasing"
    THEN \/ Has(vehicle, "lastPaymentMonth")
            /\ vehicle.lastPaymentMonth = today.y * 100 + today.m + 1
         \/ /\ vehicle.loanStartDate.y = today.y /\ vehicle.loanStartDate.m = today.m
            /\ today.d < vehicle.paymentDayOfMonth
    ELSE \/ vehicle.amountLeft <= 0
         \/ ~Has(vehicle, "initialLoanAmount")
         \/ vehicle.initialLoanAmount = 0
         \/ paymentsDue(vehicle, today) <= 0
         \/ RatioAtLeast(vehicle.initialLoanAmount - vehicle.amountLeft,
                         vehicle.monthlyPayment, paymentsDue(vehicle, today) - 1)

\* getOnTrackStatus without the payment of tolerance
getOnTrackStatusNoTolerance(vehicle, today) ==
    IF vehicle.planType = "Leasing"
    THEN \/ Has(vehicle, "lastPaymentMonth")
            /\ vehicle.lastPaymentMonth = today.y * 100 + today.m
         \/ /\ vehicle.loanStartDate.y * 100 + vehicle.loanStartDate.m
                   = today.y * 100 + today.m
            /\ today.d < vehicle.paymentDayOfMonth
    ELSE \/ vehicle.amountLeft <= 0
         \/ ~Has(vehicle, "initialLoanAmount")
         \/ vehicle.initialLoanAmount = 0
         \/ paymentsDue(vehicle, today) <= 0
         \/ RatioAtLeast(vehicle.initialLoanAmount - vehicle.amountLeft,
                         vehicle.monthlyPayment, paymentsDue(vehicle, today))

\* MyTimelinePage.getOnTrackStatus
\* getOnTrackStatus with the grace of a lease reaching the payment day itself
getOnTrackStatusGraceOnDueDay(vehicle, today) ==
    LET startDate == vehicle.loanStartDate
    IN  IF vehicle.planType = "Leasing"
        THEN LET currentMonthIdentifier == today.y * 100 + today.m
                 startMonthIdentifier == startDate.y * 100 + startDate.m
             IN  IF Has(vehicle, "lastPaymentMonth")
                    /\ vehicle.lastPaymentMonth = currentMonthIdentifier THEN TRUE
                 ELSE IF startMonthIdentifier = currentMonthIdentifier
                         /\ today.d <= vehicle.paymentDayOfMonth THEN TRUE
                 ELSE FALSE
        ELSE IF vehicle.amountLeft <= 0 THEN TRUE
             ELSE IF ~Has(vehicle, "initialLoanAmount") \/ vehicle.initialLoanAmount = 0
                  THEN TRUE
             ELSE IF paymentsDue(vehicle, today) <= 0 THEN TRUE
             ELSE RatioAtLeast(vehicle.initialLoanAmount - vehicle.amountLeft,
                               vehicle.monthlyPayment, paymentsDue(vehicle, today) - 1)

getOnTrackStatus(vehicle, today) ==
    LET startDate == vehicle.loanStartDate
    IN  IF vehicle.planType = "Leasing"
        THEN LET currentMonthIdentifier == today.y * 100 + today.m
                 startMonthIdentifier == startDate.y * 100 + startDate.m
             IN  IF Has(vehicle, "lastPaymentMonth")
                    /\ vehicle.lastPaymentMonth = currentMonthIdentifier THEN TRUE
                 ELSE IF startMonthIdentifier = currentMonthIdentifier
                         /\ today.d < vehicle.paymentDayOfMonth THEN TRUE
                 ELSE FALSE
        ELSE IF vehicle.amountLeft <= 0 THEN TRUE
             ELSE IF ~Has(vehicle, "initialLoanAmount") \/ vehicle.initialLoanAmount = 0
                  THEN TRUE
             ELSE IF paymentsDue(vehicle, today) <= 0 THEN TRUE
             ELSE RatioAtLeast(vehicle.initialLoanAmount - vehicle.amountLeft,
                               vehicle.monthlyPayment, paymentsDue(vehicle, today) - 1)

-----------------------------------------------------------------------------
(* The state machine *)

\* databaseService.initializeDatabase on an empty localStorage, the day the
\* database is created being the first day of the calendar
initializeDatabase ==
    [u \in {"celestial", "voyager"} |->
        IF u = "celestial"
        THEN [username |-> u, password_plaintext |-> "password123",
              data |-> getDefaultUserData]
        ELSE [username |-> u, password_plaintext |-> "explore",
              data |-> voyagerData(StartDate)]]

\* initializeDatabase on what localStorage holds
initializeDatabaseOn(db_users) ==
    IF DOMAIN db_users /= {} THEN db_users ELSE initializeDatabase

getUserData(db_users, username) ==
    IF username \in DOMAIN db_users THEN db_users[username].data ELSE NoData

updateUserData(db_users, username, data) ==
    IF username \in DOMAIN db_users
    THEN [db_users EXCEPT ![username].data = data]
    ELSE db_users

\* createUser without its test of the username
createUserOverwriting(db_users, username, password_plaintext) ==
    IF DOMAIN db_users = {} THEN [success |-> FALSE, users |-> db_users]
    ELSE [success |-> TRUE,
          users |-> [u \in DOMAIN db_users \cup {username} |->
                        IF u = username
                        THEN [username |-> username,
                              password_plaintext |-> password_plaintext,
                              data |-> getDefaultUserData]
                        ELSE db_users[u]]]

\* createUser: the outcome and the users of the database after it
createUser(db_users, username, password_plaintext) ==
    IF DOMAIN db_users = {} THEN [success |-> FALSE, users |-> db_users]
    ELSE IF username \in DOMAIN db_users THEN [success |-> FALSE, users |-> db_users]
    ELSE [success |-> TRUE,
          users |-> [u \in DOMAIN db_users \cup {username} |->
                        IF u = username
                        THEN [username |-> username,
                              password_plaintext |-> password_plaintext,
                              data |-> getDefaultUserData]
                        ELSE db_users[u]]]

\* login: the outcome and the session after it
login(db_users, sess, username, password_plaintext) ==
    IF DOMAIN db_users = {} THEN [success |-> FALSE, session |-> sess]
    ELSE IF /\ username \in DOMAIN db_users
            /\ db_users[username].password_plaintext = password_plaintext
         THEN [success |-> TRUE, session |-> username]
    ELSE [success |-> FALSE, session |-> sess]

\* db.users[currentUser].data: what the database holds for the current user
db == getUserData(users, currentUser)

\* handleLoginSuccess: the App holds what the database holds for the user
LoggedInAs(username) ==
    /\ users = [initializeDatabase EXCEPT ![username].data = userData]
    /\ session = username
    /\ currentUser = username
    /\ pending = {}
    /\ origin = username
    /\ tab = NoSession

\* the persist effect: every change of userData is written to the database
Persist ==
    /\ users' = updateUserData(users, currentUser, userData')
    /\ UNCHANGED <<session, currentUser, pending, origin, tab>>

Init ==
    /\ now = StartDate
    /\ ms = 0
    /\ userData = voyagerData(StartDate)
    /\ modal = [isOpen |-> FALSE, loan |-> NoLoan]
    /\ amount = 0
    /\ paymentStatus = "idle"
    /\ timers = 0
    /\ paid = [i \in 1..Len(userData.activeLoans) |->
                  userData.activeLoans[i].initialLoanAmount - userData.activeLoans[i].amountLeft]
    /\ events = 0
    /\ calc = [price |-> 0]
    /\ LoggedInAs("voyager")

\* the clock moves on to the next day of the calendar
Tick ==
    /\ \E d \in Calendar :
          /\ DayNumber(d) > DayNumber(now)
          /\ \A e \in Calendar : DayNumber(e) > DayNumber(now) => DayNumber(d) <= DayNumber(e)
          /\ now' = d
    /\ ms' = 0
    /\ UNCHANGED <<userData, modal, amount, paymentStatus, timers, paid, calc>>

\* FinanceControls.handleInputChange -> App.setUserInput
ChangeUserInput ==
    /\ modal.isOpen = FALSE
    /\ \E dp \in DownPayments, lt \in LoanTerms, cs \in CreditScores :
          userData' = setUserInput(userData,
              [userData.userInput EXCEPT !.downPayment = dp, !.loanTerm = lt,
                                         !.creditScore = cs])
    /\ UNCHANGED <<now, ms, modal, amount, paymentStatus, timers, paid, calc>>

\* FinancingPage.handleSave -> App.handleSaveAlignment.  idRead is Date.now(),
\* savedRead the later new Date().
Save ==
    /\ modal.isOpen = FALSE
    /\ \E vehicle \in Vehicles, planType \in PlanTypes,
          idRead \in MsReadings, savedRead \in MsReadings :
          /\ ms <= idRead /\ idRead <= savedRead
          /\ LET rate == getInterestRate(userData.userInput.creditScore)
                 currentPlan == IF planType = "Financing"
                                THEN financingPlan(vehicle.price, userData.userInput, rate)
                                ELSE leasingPlan(vehicle.price, userData.userInput, rate)
                 newAlignment == [id |-> <<Instant(now, idRead), vehicle.model>>,
                                  vehicle |-> vehicle,
                                  userInput |-> userData.userInput,
                                  plan |-> currentPlan,
                                  savedAt |-> Instant(now, savedRead)]
             IN  userData' = handleSaveAlignment(userData, newAlignment)
          /\ ms' = savedRead
    /\ UNCHANGED <<now, modal, amount, paymentStatus, timers, paid, calc>>

\* SavedAlignmentsPage: Delete -> App.handleDeleteAlignment
Delete ==
    /\ modal.isOpen = FALSE
    /\ \E i \in 1..Len(userData.savedAlignments) :
          userData' = handleDeleteAlignment(userData, userData.savedAlignments[i].id)
    /\ UNCHANGED <<now, ms, modal, amount, paymentStatus, timers, paid, calc>>

\* SavedAlignmentsPage: Clear all -> App.handleClearAllAlignments
ClearAll ==
    /\ modal.isOpen = FALSE
    /\ userData.savedAlignments /= <<>>
    /\ userData' = handleClearAllAlignments(userData)
    /\ UNCHANGED <<now, ms, modal, amount, paymentStatus, timers, paid, calc>>

\* Chatbot: the conversation is saved -> App.handleSaveConversation
SaveConversation ==
    /\ \E c \in Conversations : userData' = handleSaveConversation(userData, c)
    /\ UNCHANGED <<now, ms, modal, amount, paymentStatus, timers, paid, calc>>

\* SavedAlignmentsPage: Commit -> App.handleCommitAlignment
Commit ==
    /\ modal.isOpen = FALSE
    /\ \E i \in 1..Len(userData.savedAlignments), dayRead \in SecondRead(now) :
          /\ userData' = handleCommitAlignment(userData, userData.savedAlignments[i].id,
                                               now, dayRead)
          /\ now' = dayRead
          /\ ms' = IF dayRead = now THEN ms ELSE 0
    /\ paid' = IF Len(userData'.activeLoans) > Len(paid) THEN Append(paid, 0) ELSE paid
    /\ UNCHANGED <<modal, amount, paymentStatus, timers, calc>>

\* the Pay button of a row: setPaymentModalState({isOpen: true, loan: vehicle}),
\* then the effect of PaymentModal
PayClick ==
    /\ modal.isOpen = FALSE
    /\ \E i \in 1..Len(userData.activeLoans) :
          LET vehicle == userData.activeLoans[i]
          IN  /\ ~PayDisabled(vehicle, now)
              /\ modal' = [isOpen |-> TRUE, loan |-> vehicle]
              /\ amount' = DefaultAmount(vehicle)
    /\ paymentStatus' = "idle"
    /\ UNCHANGED <<now, ms, userData, timers, paid, calc>>

\* the amount field: onChange -> setAmount(Number(e.target.value))
AmountChange ==
    /\ modal.isOpen
    /\ paymentStatus = "idle"
    /\ \E a \in AmountInputs : amount' = a
    /\ UNCHANGED <<now, ms, userData, modal, paymentStatus, timers, paid, calc>>

\* PaymentModal.handleSubmit -> App.handleMakePayment, and the timer it starts
Submit ==
    /\ modal.isOpen
    /\ paymentStatus = "idle"
    /\ IF modal.loan = NoLoan \/ amount <= 0
       THEN UNCHANGED <<now, ms, userData, modal, amount, paymentStatus, timers, paid, calc>>
       ELSE \E monthRead \in SecondRead(now) :
              LET finalAmount == floorToCent(amount)
                  i == LoanIndex(userData.activeLoans, modal.loan.id)
              IN  /\ userData' = handleMakePayment(userData, modal.loan.id, finalAmount,
                                                   now, monthRead)
                  /\ paid' = [paid EXCEPT ![i] = @ + finalAmount]
                  /\ now' = monthRead
                  /\ ms' = IF monthRead = now THEN ms ELSE 0
                  /\ paymentStatus' = "paid"
                  /\ timers' = timers + 1
                  /\ UNCHANGED <<modal, amount, calc>>

\* the close button of the modal: onClose, then the effect of PaymentModal
CloseClick ==
    /\ modal.isOpen
    /\ modal' = [isOpen |-> FALSE, loan |-> NoLoan]
    /\ paymentStatus' = "idle"
    /\ UNCHANGED <<now, ms, userData, amount, timers, paid, calc>>

\* a timer started by handleSubmit fires: onClose, then the effect
TimerFire ==
    /\ timers > 0
    /\ timers' = timers - 1
    /\ modal' = [isOpen |-> FALSE, loan |-> NoLoan]
    /\ paymentStatus' = "idle"
    /\ UNCHANGED <<now, ms, userData, amount, paid, calc>>

\* every event is counted
Handled == events < MaxEvents /\ events' = events + 1

Next ==
    \/ (Handled /\ Tick /\ Persist)
    \/ (Handled /\ ChangeUserInput /\ Persist)
    \/ (Handled /\ Save /\ Persist)
    \/ (Handled /\ Delete /\ Persist)
    \/ (Handled /\ ClearAll /\ Persist)
    \/ (Handled /\ Commit /\ Persist)
    \/ (Handled /\ PayClick /\ Persist)
    \/ (Handled /\ AmountChange /\ Persist)
    \/ (Handled /\ Submit /\ Persist)
    \/ (Handled /\ CloseClick /\ Persist)
    \/ (Handled /\ TimerFire /\ Persist)
    \/ (Handled /\ SaveConversation /\ Persist)

Spec == Init /\ [][Next]_vars

-----------------------------------------------------------------------------
(* The payment schedule of the timeline page *)

\* new Date(start year, start month + i, paymentDayOfMonth)
DueDate(vehicle, i) ==
    MakeDate(vehicle.loanStartDate.y, vehicle.loanStartDate.m + i,
             vehicle.paymentDayOfMonth)

Payment(vehicle, i) ==
    [date |-> DueDate(vehicle, i), vehicle |-> vehicle,
     remaining |-> vehicle.loanTermInMonths - i]

\* the loop over i with a strict test of the date
VehiclePaymentsStrictlyAfter(vehicle, today) ==
    LET due(p) == DayNumber(p.date) > DayNumber(today)
    IN  SelectSeq([k \in 1..vehicle.loanTermInMonths |-> Payment(vehicle, k - 1)], due)

\* for (let i = 0; i < loanTermInMonths; i++) if (paymentDate >= today) push
VehiclePayments(vehicle, today) ==
    LET due(p) == DayNumber(p.date) >= DayNumber(today)
    IN  SelectSeq([k \in 1..vehicle.loanTermInMonths |-> Payment(vehicle, k - 1)], due)

\* vehicles.forEach(...): the pushes of every vehicle, in the order of the list
RECURSIVE PushPayments(_, _)
PushPayments(vehicles, today) ==
    IF vehicles = <<>> THEN <<>>
    ELSE VehiclePayments(Head(vehicles), today) \o PushPayments(Tail(vehicles), today)

\* a function on 1..n as the array of its values
Array(f) == SubSeq(f, 1, Len(f))

\* payments.sort((a, b) => a.date.getTime() - b.date.getTime()), a stable sort:
\* an element comes after every element of an earlier date and after the
\* elements of its own date that were before it
SortByDate(seq) ==
    LET n == Len(seq)
        time == Array([k \in 1..n |-> DayNumber(seq[k].date)])
        place == Array([k \in 1..n |->
                    1 + Cardinality({j \in 1..n :
                            time[j] < time[k] \/ (time[j] = time[k] /\ j < k)})])
    IN  Array([p \in 1..n |-> seq[CHOOSE k \in 1..n : place[k] = p]])

\* the schedule returned as it was pushed
PaymentsAsPushed(userVehicles, today) == PushPayments(userVehicles, today)

\* MyTimelinePage
allFuturePayments(userVehicles, today) == SortByDate(PushPayments(userVehicles, today))

\* every vehicle starts visible in the timeline settings
timelineSettings(userVehicles) ==
    {userVehicles[i].id : i \in 1..Len(userVehicles)}

\* DetailedTimeline: the schedule of the visible vehicles
allPayments(vehicles, settings, today) ==
    LET visible(v) == v.id \in settings
    IN  SortByDate(PushPayments(SelectSeq(vehicles, visible), today))

-----------------------------------------------------------------------------
(* The plan calculators on their own: a new user on the financing page *)

PlanVehicles ==
    { [model |-> "RAV4", price |-> 28000000, image |-> "RAV4.jpg"],
      [model |-> "Corolla", price |-> 22000000, image |-> "Corolla.jpg"],
      [model |-> "Sequoia", price |-> 61000000, image |-> "Sequoia.jpg"] }
PlanDownPayments == {0, 3000000, 5000000, 13000000, 20000000, 22000000, 30000000}
PlanLoanTerms == {0, 1, 5, 15}
PlanCreditScores == {0, 300, 599, 600, 649, 650, 699, 700, 720, 759, 760, 850, 900}

InitPlan ==
    /\ now = StartDate
    /\ ms = 0
    /\ userData = getDefaultUserData
    /\ modal = [isOpen |-> FALSE, loan |-> NoLoan]
    /\ amount = 0
    /\ paymentStatus = "idle"
    /\ timers = 0
    /\ paid = <<>>
    /\ events = 0
    /\ calc \in {[price |-> v.price] : v \in PlanVehicles}
    /\ LoggedInAs("celestial")

\* another vehicle is opened on the financing page
PlanSelectVehicle ==
    /\ \E v \in PlanVehicles : calc' = [price |-> v.price]
    /\ calc' /= calc
    /\ UNCHANGED <<now, ms, userData, modal, amount, paymentStatus, timers, paid, events>>

\* the finance controls change the user input
PlanChangeInput ==
    /\ \E dp \in PlanDownPayments, lt \in PlanLoanTerms, cs \in PlanCreditScores :
          userData' = setUserInput(userData,
              [userData.userInput EXCEPT !.downPayment = dp, !.loanTerm = lt,
                                         !.creditScore = cs])
    /\ userData' /= userData
    /\ UNCHANGED <<now, ms, modal, amount, paymentStatus, timers, paid, events, calc>>

NextPlan == (PlanSelectVehicle /\ Persist) \/ (PlanChangeInput /\ Persist)

SpecPlan == InitPlan /\ [][NextPlan]_vars

\* the plans the financing page shows
shownFinancingPlan ==
    financingPlan(calc.price, userData.userInput,
                  getInterestRate(userData.userInput.creditScore))
shownLeasingPlan ==
    leasingPlan(calc.price, userData.userInput,
                getInterestRate(userData.userInput.creditScore))
\* the plan on the card of the vehicle, and the price range of the search
shownCardPlan ==
    cardPlan(calc.price, userData.userInput,
             getInterestRate(userData.userInput.creditScore))
shownPriceRange == affordablePriceRange(userData.userInput)

-----------------------------------------------------------------------------
(* The schedule on its own: a ledger of one or two committed loans, seen on
   the timeline page as the days pass *)

SchedStarts ==
    { [y |-> 2024, m |-> 0, d |-> 31], [y |-> 2023, m |-> 0, d |-> 29],
      [y |-> 2023, m |-> 11, d |-> 15], [y |-> 2024, m |-> 7, d |-> 30] }
SchedDays ==
    << [y |-> 2024, m |-> 0, d |-> 31], [y |-> 2024, m |-> 2, d |-> 2],
       [y |-> 2024, m |-> 7, d |-> 30], [y |-> 2025, m |-> 0, d |-> 1] >>

\* a plan of the default user for the RAV4, one year long, saved on the day start
SchedAlignment(planType, start) ==
    LET input == [getDefaultUserData.userInput EXCEPT !.loanTerm = 1]
        v == [model |-> "RAV4", price |-> 28000000, image |-> "RAV4.jpg"]
        rate == getInterestRate(input.creditScore)
    IN  [id |-> <<Instant(start, IF planType = "Financing" THEN 0 ELSE 1), v.model>>,
         vehicle |-> v, userInput |-> input, savedAt |-> Instant(start, 1),
         plan |-> IF planType = "Financing" THEN financingPlan(v.price, input, rate)
                  ELSE leasingPlan(v.price, input, rate)]

SchedLoan(prev, planType, start) ==
    NewLoan(prev, SchedAlignment(planType, start), start, start)

SchedLedgers ==
    LET empty == getDefaultUserData
        firsts == {voyagerLoan(StartDate)} \cup
                  {SchedLoan(empty, t, s) : t \in PlanTypes, s \in SchedStarts}
        with(l) == [empty EXCEPT !.activeLoans = <<l>>]
    IN  {<<l>> : l \in firsts} \cup
        {<<l, SchedLoan(with(l), t, s)>> : l \in firsts, t \in PlanTypes, s \in SchedStarts}

InitSched ==
    /\ now = SchedDays[1]
    /\ ms = 0
    /\ \E ledger \in SchedLedgers :
          /\ \A i, j \in 1..Len(ledger) : ledger[i].id = ledger[j].id => i = j
          /\ userData = [getDefaultUserData EXCEPT !.activeLoans = ledger]
    /\ modal = [isOpen |-> FALSE, loan |-> NoLoan]
    /\ amount = 0
    /\ paymentStatus = "idle"
    /\ timers = 0
    /\ paid = [i \in 1..Len(userData.activeLoans) |-> 0]
    /\ events = 0
    /\ calc = [price |-> 0]
    /\ LoggedInAs("celestial")

\* the timeline page is opened again on a later day
SchedTick ==
    /\ \E k \in 1..(Len(SchedDays) - 1) : now = SchedDays[k] /\ now' = SchedDays[k + 1]
    /\ UNCHANGED <<ms, userData, modal, amount, paymentStatus, timers, paid, events, calc>>

NextSched == SchedTick /\ Persist

SpecSched == InitSched /\ [][NextSched]_vars

-----------------------------------------------------------------------------
(* On-track status over the months: a new user with a saved financing plan
   and a saved lease commits them, pays what the payment form proposes, and
   looks at the timeline page as the days pass *)

MaxTrackPayments == 3   \* payments submitted in one run

TrackDays ==
    << [y |-> 2024, m |-> 0, d |-> 15], [y |-> 2024, m |-> 0, d |-> 31],
       [y |-> 2024, m |-> 1, d |-> 14], [y |-> 2024, m |-> 1, d |-> 15],
       [y |-> 2024, m |-> 1, d |-> 29], [y |-> 2024, m |-> 2, d |-> 1],
       [y |-> 2024, m |-> 2, d |-> 2],  [y |-> 2024, m |-> 2, d |-> 14],
       [y |-> 2024, m |-> 2, d |-> 15], [y |-> 2024, m |-> 2, d |-> 31],
       [y |-> 2024, m |-> 3, d |-> 15] >>

InitTrack ==
    /\ now = TrackDays[1]
    /\ ms = 1
    /\ userData = handleSaveAlignment(
                      handleSaveAlignment(getDefaultUserData,
                                          SchedAlignment("Financing", TrackDays[1])),
                      SchedAlignment("Leasing", TrackDays[1]))
    /\ modal = [isOpen |-> FALSE, loan |-> NoLoan]
    /\ amount = 0
    /\ paymentStatus = "idle"
    /\ timers = 0
    /\ paid = <<>>
    /\ events = 0
    /\ calc = [price |-> 0]
    /\ LoggedInAs("celestial")

\* the clock moves on to the next day looked at
TrackTick ==
    /\ \E k \in 1..(Len(TrackDays) - 1) : now = TrackDays[k] /\ now' = TrackDays[k + 1]
    /\ ms' = 0
    /\ UNCHANGED <<userData, modal, amount, paymentStatus, timers, paid, events, calc>>

\* Commit on the saved-plans page, both clock reads on the same day
TrackCommit ==
    /\ \E i \in 1..Len(userData.savedAlignments) :
          /\ ~LoanExists(userData.activeLoans, userData.savedAlignments[i].id)
          /\ userData' = handleCommitAlignment(userData, userData.savedAlignments[i].id,
                                               now, now)
    /\ paid' = Append(paid, 0)
    /\ UNCHANGED <<now, ms, modal, amount, paymentStatus, timers, events, calc>>

\* Pay on the timeline page, the form submitted with the amount it proposes
\* and closed again
TrackPay ==
    /\ events < MaxTrackPayments
    /\ \E i \in 1..Len(userData.activeLoans) :
          LET loan == userData.activeLoans[i]
              finalAmount == floorToCent(DefaultAmount(loan))
          IN  /\ ~PayDisabled(loan, now)
              /\ DefaultAmount(loan) > 0
              /\ userData' = handleMakePayment(userData, loan.id, finalAmount, now, now)
              /\ paid' = [paid EXCEPT ![i] = @ + finalAmount]
    /\ events' = events + 1
    /\ UNCHANGED <<now, ms, modal, amount, paymentStatus, timers, calc>>

NextTrack == (TrackTick /\ Persist) \/ (TrackCommit /\ Persist) \/ (TrackPay /\ Persist)

SpecTrack == InitTrack /\ [][NextTrack]_vars

-----------------------------------------------------------------------------
(* A lease over the months and across the year: a new user with a saved lease
   commits it and pays it on the timeline page as the days pass *)

LeaseDays ==
    << [y |-> 2024, m |-> 9, d |-> 15],  [y |-> 2024, m |-> 9, d |-> 31],
       [y |-> 2024, m |-> 10, d |-> 1],  [y |-> 2024, m |-> 10, d |-> 29],
       [y |-> 2024, m |-> 10, d |-> 30],
       [y |-> 2024, m |-> 11, d |-> 31], [y |-> 2025, m |-> 0, d |-> 1],
       [y |-> 2025, m |-> 0, d |-> 31],  [y |-> 2025, m |-> 1, d |-> 1],
       [y |-> 2025, m |-> 9, d |-> 15] >>

\* the second clock read of a handler: the same day, or the next one
LeaseSecondRead(first) ==
    {first} \cup {LeaseDays[k] : k \in {j \in 1..Len(LeaseDays) : LeaseDays[j] = NextDay(first)}}

InitLease ==
    /\ now = LeaseDays[1]
    /\ ms = 1
    /\ userData = handleSaveAlignment(getDefaultUserData,
                                      SchedAlignment("Leasing", LeaseDays[1]))
    /\ modal = [isOpen |-> FALSE, loan |-> NoLoan]
    /\ amount = 0
    /\ paymentStatus = "idle"
    /\ timers = 0
    /\ paid = <<>>
    /\ events = 0
    /\ calc = [price |-> 0]
    /\ LoggedInAs("celestial")

\* the clock moves on to the next day looked at
LeaseTick ==
    /\ \E k \in 1..(Len(LeaseDays) - 1) : now = LeaseDays[k] /\ now' = LeaseDays[k + 1]
    /\ ms' = 0
    /\ UNCHANGED <<userData, modal, amount, paymentStatus, timers, paid, events, calc>>

\* Commit on the saved-plans page: handleCommitAlignment reads the clock for
\* loanStartDate, then for paymentDayOfMonth
LeaseCommit ==
    /\ \E i \in 1..Len(userData.savedAlignments), dayRead \in LeaseSecondRead(now) :
          /\ ~LoanExists(userData.activeLoans, userData.savedAlignments[i].id)
          /\ userData' = handleCommitAlignment(userData, userData.savedAlignments[i].id,
                                               now, dayRead)
          /\ now' = dayRead
          /\ ms' = IF dayRead = now THEN ms ELSE 0
    /\ paid' = Append(paid, 0)
    /\ UNCHANGED <<modal, amount, paymentStatus, timers, events, calc>>

\* Pay on the timeline page, the form submitted with the amount it proposes
\* and closed again; handleMakePayment reads the year, then the month
LeasePay ==
    /\ events < MaxTrackPayments
    /\ \E i \in 1..Len(userData.activeLoans), monthRead \in LeaseSecondRead(now) :
          LET loan == userData.activeLoans[i]
              finalAmount == floorToCent(DefaultAmount(loan))
          IN  /\ ~PayDisabled(loan, now)
              /\ DefaultAmount(loan) > 0
              /\ userData' = handleMakePayment(userData, loan.id, finalAmount,
                                               now, monthRead)
              /\ paid' = [paid EXCEPT ![i] = @ + finalAmount]
              /\ now' = monthRead
              /\ ms' = IF monthRead = now THEN ms ELSE 0
    /\ events' = events + 1
    /\ UNCHANGED <<modal, amount, paymentStatus, timers, calc>>

NextLease == (LeaseTick /\ Persist) \/ (LeaseCommit /\ Persist) \/ (LeasePay /\ Persist)

SpecLease == InitLease /\ [][NextLease]_vars

-----------------------------------------------------------------------------
(* Accounts and sessions: the login page, guest mode, the sample users and
   the persist effect of the App *)

Usernames == {"celestial", "voyager", "nova", "guest"}
Passwords == {"password123", "explore"}

\* the data of the one sample user of the samples page
SampleData ==
    [getDefaultUserData EXCEPT !.userInput.income = 90000000,
                               !.userInput.downPayment = 13000000]

\* handleTryOutSample without its test of guest mode
handleTryOutSampleAnyUser(user, data) == SampleData

\* handleTryOutSample: the userData after it
handleTryOutSample(user, data) ==
    IF user /= "guest" THEN data ELSE SampleData

\* the App renders the Login page
LoginShown == currentUser = NoUser \/ userData = NoData

\* the persist effect after a render in which userData or currentUser changed
PersistEffect(db_users, user, data) ==
    IF user /= NoUser /\ user /= "guest" /\ data /= NoData
          /\ (user /= currentUser \/ data /= userData)
    THEN updateUserData(db_users, user, data)
    ELSE db_users

\* the unchanged rest of the application
SessionFrame ==
    UNCHANGED <<now, ms, modal, amount, paymentStatus, timers, paid, calc, tab>>

\* the App mounts: initializeDatabase, then the session found in localStorage
InitSession ==
    /\ now = StartDate
    /\ ms = 0
    /\ modal = [isOpen |-> FALSE, loan |-> NoLoan]
    /\ amount = 0
    /\ paymentStatus = "idle"
    /\ timers = 0
    /\ paid = <<>>
    /\ events = 0
    /\ calc = [price |-> 0]
    /\ tab = NoSession
    /\ pending = {}
    /\ users = initializeDatabaseOn(<<>>)
    /\ session \in {NoUser, "voyager", "nova"}
    /\ LET data == IF session = NoUser THEN NoData ELSE getUserData(users, session)
       IN  IF data = NoData
           THEN currentUser = NoUser /\ userData = NoData /\ origin = NoUser
           ELSE currentUser = session /\ userData = data /\ origin = session

\* Login.handleLogin / handleSignUp: the form is submitted and a timer started
SubmitForm ==
    /\ LoginShown
    /\ \E form \in {"login", "signup"}, u \in Usernames, pw \in Passwords :
          /\ [form |-> form, username |-> u, password |-> pw] \notin pending
          /\ pending' = pending \cup {[form |-> form, username |-> u, password |-> pw]}
    /\ UNCHANGED <<userData, users, session, currentUser, origin>>
    /\ SessionFrame

\* the timer of handleLogin fires: db.login, then App.handleLoginSuccess and
\* the persist effect
LoginTimer ==
    /\ \E p \in pending :
          /\ p.form = "login"
          /\ pending' = pending \ {p}
          /\ LET result == login(users, session, p.username, p.password)
                 data == getUserData(users, p.username)
             IN  /\ session' = result.session
                 /\ IF result.success /\ data /= NoData
                    THEN /\ currentUser' = p.username
                         /\ userData' = data
                         /\ origin' = p.username
                    ELSE UNCHANGED <<currentUser, userData, origin>>
                 /\ users' = PersistEffect(users, currentUser', userData')
    /\ SessionFrame

\* the timer of handleSignUp fires: db.createUser, db.login, then
\* App.handleLoginSuccess and the persist effect
SignUpTimer ==
    /\ \E p \in pending :
          /\ p.form = "signup"
          /\ pending' = pending \ {p}
          /\ LET created == createUser(users, p.username, p.password)
                 result == IF created.success
                           THEN login(created.users, session, p.username, p.password)
                           ELSE [success |-> FALSE, session |-> session]
                 data == getUserData(created.users, p.username)
             IN  /\ session' = result.session
                 /\ IF result.success /\ data /= NoData
                    THEN /\ currentUser' = p.username
                         /\ userData' = data
                         /\ origin' = p.username
                    ELSE UNCHANGED <<currentUser, userData, origin>>
                 /\ users' = PersistEffect(created.users, currentUser', userData')
    /\ SessionFrame

\* App.handleContinueAsGuest
ContinueAsGuest ==
    /\ LoginShown
    /\ currentUser' = "guest"
    /\ userData' = getDefaultUserData
    /\ origin' = "guest"
    /\ users' = PersistEffect(users, currentUser', userData')
    /\ UNCHANGED <<session, pending>>
    /\ SessionFrame

\* App.handleLogout, from the header
Logout ==
    /\ ~LoginShown
    /\ session' = NoUser
    /\ currentUser' = NoUser
    /\ userData' = NoData
    /\ origin' = NoUser
    /\ users' = PersistEffect(users, currentUser', userData')
    /\ UNCHANGED pending
    /\ SessionFrame

\* App.handleTryOutSample, from the samples page
TryOutSample ==
    /\ ~LoginShown
    /\ userData' = handleTryOutSample(currentUser, userData)
    /\ origin' = IF userData' = userData THEN origin ELSE "sample"
    /\ users' = PersistEffect(users, currentUser, userData')
    /\ UNCHANGED <<session, currentUser, pending>>
    /\ SessionFrame

\* FinanceControls.handleInputChange -> App.setUserInput, and the persist effect
SessionEdit ==
    /\ ~LoginShown
    /\ \E dp \in DownPayments :
          userData' = setUserInput(userData, [userData.userInput EXCEPT !.downPayment = dp])
    /\ userData' /= userData
    /\ users' = PersistEffect(users, currentUser, userData')
    /\ UNCHANGED <<session, currentUser, pending, origin>>
    /\ SessionFrame

NextSession ==
    \/ (Handled /\ SubmitForm)
    \/ (Handled /\ LoginTimer)
    \/ (Handled /\ SignUpTimer)
    \/ (Handled /\ ContinueAsGuest)
    \/ (Handled /\ Logout)
    \/ (Handled /\ TryOutSample)
    \/ (Handled /\ SessionEdit)

SpecSession == InitSession /\ [][NextSession]_vars

-----------------------------------------------------------------------------
(* Two Apps of one session: the seeded user has the application open in two
   tabs; each App holds its own userData, loaded from the database when it
   starts, and writes the whole of it back whenever it changes *)

TabAmounts == {550750, 1000000}

\* the amounts entered in the payment form of an App: whole cents, positive,
\* no more than what that App shows as left on the loan
FormAmounts(loan) == {a \in TabAmounts : a <= loan.amountLeft}

\* a second tab starts: the session is found and the user's data loaded
TabOpen ==
    /\ tab = NoSession
    /\ tab' = db
    /\ UNCHANGED <<now, ms, userData, modal, amount, paymentStatus, timers, paid, calc, users>>

\* the first App handles a payment and persists its userData
TabPay ==
    /\ \E i \in 1..Len(userData.activeLoans) :
          \E amt \in FormAmounts(userData.activeLoans[i]) :
              /\ userData' = handleMakePayment(userData, userData.activeLoans[i].id,
                                               amt, now, now)
              /\ paid' = [paid EXCEPT ![i] = @ + amt]
    /\ users' = updateUserData(users, currentUser, userData')
    /\ UNCHANGED <<now, ms, modal, amount, paymentStatus, timers, calc, tab>>

\* the second App handles a payment and persists its userData
TabPayOther ==
    /\ tab /= NoSession
    /\ \E i \in 1..Len(tab.activeLoans) :
          \E amt \in FormAmounts(tab.activeLoans[i]) :
              /\ tab' = handleMakePayment(tab, tab.activeLoans[i].id, amt, now, now)
              /\ paid' = [paid EXCEPT ![i] = @ + amt]
    /\ users' = updateUserData(users, currentUser, tab')
    /\ UNCHANGED <<now, ms, userData, modal, amount, paymentStatus, timers, calc>>

\* the first tab is reloaded: its App starts again from the database
TabReload ==
    /\ userData /= db
    /\ userData' = db
    /\ UNCHANGED <<now, ms, modal, amount, paymentStatus, timers, paid, calc, users, tab>>

\* the second tab is reloaded
TabReloadOther ==
    /\ tab /= NoSession
    /\ tab /= db
    /\ tab' = db
    /\ UNCHANGED <<now, ms, userData, modal, amount, paymentStatus, timers, paid, calc, users>>

SameSession == UNCHANGED <<session, currentUser, pending, origin>>

NextTabs ==
    \/ (Handled /\ TabOpen /\ SameSession)
    \/ (Handled /\ TabPay /\ SameSession)
    \/ (Handled /\ TabPayOther /\ SameSession)
    \/ (Handled /\ TabReload /\ SameSession)
    \/ (Handled /\ TabReloadOther /\ SameSession)

SpecTabs == Init /\ [][NextTabs]_vars

-----------------------------------------------------------------------------
(* Claims checked under Spec *)

Loans == userData.activeLoans
Saved == userData.savedAlignments
LoanIds == {Loans[i].id : i \in 1..Len(Loans)}
SavedIds == {Saved[i].id : i \in 1..Len(Saved)}

\* C1: committing a saved plan whose id is already among the active loans
\* leaves the active loans unchanged; a second handleCommitAlignment(id) right
\* after a first gives the active loans of the first, and only the first call
\* can add a loan (one at most).
C1_CommitIdempotent ==
    \A id \in SavedIds \cup LoanIds : \A d1 \in SecondRead(now) : \A d2 \in SecondRead(d1) :
        LET once == handleCommitAlignment(userData, id, now, d1)
            twice == handleCommitAlignment(once, id, d1, d2)
        IN  /\ twice.activeLoans = once.activeLoans
            /\ (id \in LoanIds => once.activeLoans = Loans)
            /\ (id \in SavedIds \ LoanIds =>
                    /\ Len(once.activeLoans) = Len(Loans) + 1
                    /\ SubSeq(once.activeLoans, 1, Len(Loans)) = Loans)

\* C1 witness: a saved plan has been committed and is still saved, so that
\* committing it again meets its own loan
C1_Witness == \E id \in SavedIds : id \in LoanIds

\* the loan of the ledger the open payment form is about
ModalTarget == Loans[LoanIndex(Loans, modal.loan.id)]
FormOpen == modal.isOpen /\ modal.loan /= NoLoan /\ paymentStatus = "idle"

\* C2: while the payment form of a Financing loan holds an amount that reaches
\* the payment operation as <= 0 or as more than the loan's amountLeft, no
\* step changes the ledger (the payment is rejected, nothing is mutated).
C2_BadAmountRejected ==
    [][ ( /\ FormOpen
          /\ modal.loan.planType = "Financing"
          /\ \/ floorToCent(amount) <= 0
             \/ floorToCent(amount) > ModalTarget.amountLeft )
        => userData' = userData ]_vars

\* C3: the amountLeft of a Financing loan never increases, and it is exactly 0
\* whenever the sum of the amounts paid is at least the original loanAmount.
C3_MonotoneToZero ==
    [][ \A i \in 1..Len(Loans') :
          Loans'[i].planType = "Financing" =>
            /\ (i <= Len(Loans) => Loans'[i].amountLeft <= Loans[i].amountLeft)
            /\ (paid'[i] >= Loans'[i].initialLoanAmount => Loans'[i].amountLeft = 0) ]_vars

\* C4: every saved financing plan has loanAmount = max(0, price - downPayment),
\* and every Financing active loan has amountLeft >= 0 and initialLoanAmount >= 0.
C4_NonNegativeLoanAmount ==
    /\ \A i \in 1..Len(Saved) :
          Saved[i].plan.planType = "Financing" =>
            Saved[i].plan.loanAmount =
                Max(0, Saved[i].vehicle.price - Saved[i].userInput.downPayment)
    /\ \A i \in 1..Len(Loans) :
          Loans[i].planType = "Financing" =>
            Loans[i].amountLeft >= 0 /\ Loans[i].initialLoanAmount >= 0

\* year * 100 + month with the month counted 1..12
YYYYMM(date) == date.y * 100 + date.m + 1

\* C9: a submitted payment on a Leasing loan records lastPaymentMonth as the
\* YYYYMM of the time of payment, month in 1..12, and leaves amountLeft as it was.
C9_LeaseRecordsYYYYMM ==
    [][ ( /\ FormOpen
          /\ modal.loan.planType = "Leasing"
          /\ paymentStatus' = "paid" )
        => LET i == LoanIndex(Loans, modal.loan.id)
           IN  /\ Has(Loans'[i], "lastPaymentMonth")
               /\ Loans'[i].lastPaymentMonth \in {YYYYMM(now), YYYYMM(now')}
               /\ Loans'[i].lastPaymentMonth % 100 \in 1..12
               /\ Loans'[i].amountLeft = Loans[i].amountLeft ]_vars

C15_LoansOnlyPaid ==
    [][ /\ Len(Loans') >= Len(Loans)
        /\ \A i \in 1..Len(Loans) : Loans'[i].id = Loans[i].id
        /\ (\E i \in 1..Len(Loans) : Loans'[i] /= Loans[i])
              => (FormOpen /\ paymentStatus' = "paid")
        /\ ( \/ Saved' /= Saved
             \/ userData'.userInput /= userData.userInput
             \/ userData'.chatbotConversations /= userData.chatbotConversations )
              => Loans' = Loans
        /\ handleClearAllAlignments(userData).activeLoans = Loans
        /\ \A id \in SavedIds \cup LoanIds :
              handleDeleteAlignment(userData, id).activeLoans = Loans
        /\ \A c \in Conversations :
              handleSaveConversation(userData, c).activeLoans = Loans ]_vars

\* C15 witness: a committed loan is in the ledger and its saved plan is not
\* among the saved plans any more
C15_Witness ==
    \E i \in 1..Len(Loans) :
        /\ Loans[i].id /= voyagerLoan(StartDate).id
        /\ Loans[i].id \notin SavedIds

\* C20: a step that adds a loan appends it after the existing ones, with the
\* id, monthlyPayment and planType of a saved plan; for a Financing plan
\* amountLeft = initialLoanAmount = plan.loanAmount and loanTermInMonths =
\* loanTerm * 12; for a Leasing plan amountLeft = 0, lastPaymentMonth is
\* unset and loanTermInMonths = plan.term.
C20_CommitBuildsLoan ==
    [][ Len(Loans') > Len(Loans) =>
          LET new == Loans'[Len(Loans')]
          IN  /\ Len(Loans') = Len(Loans) + 1
              /\ SubSeq(Loans', 1, Len(Loans)) = Loans
              /\ \E k \in 1..Len(Saved) :
                    LET a == Saved[k]
                    IN  /\ new.id = a.id
                        /\ new.monthlyPayment = a.plan.monthlyPayment
                        /\ new.planType = a.plan.planType
                        /\ a.plan.planType = "Financing" =>
                              /\ new.amountLeft = a.plan.loanAmount
                              /\ new.initialLoanAmount = a.plan.loanAmount
                              /\ new.loanTermInMonths = a.plan.loanTerm * 12
                        /\ a.plan.planType = "Leasing" =>
                              /\ new.amountLeft = 0
                              /\ ~Has(new, "lastPaymentMonth")
                              /\ new.loanTermInMonths = a.plan.term ]_vars

\* C20 witness: the last loan of the ledger is a lease just committed (not
\* paid yet) from a plan that is still saved, after an existing loan
C20_Witness ==
    /\ Len(Loans) > 1
    /\ Loans[Len(Loans)].planType = "Leasing"
    /\ ~Has(Loans[Len(Loans)], "lastPaymentMonth")
    /\ Loans[Len(Loans)].id \in SavedIds

\* what the schedule of one loan, taken from its start date, adds up to
ScheduledTotal(loan) ==
    Len(allFuturePayments(<<loan>>, loan.loanStartDate)) * loan.monthlyPayment

\* the saved plan k is the one the loan was committed from
CommittedFrom(loan, k) ==
    /\ Saved[k].id = loan.id
    /\ Saved[k].plan.planType = loan.planType
    /\ Saved[k].plan.monthlyPayment = loan.monthlyPayment
    /\ \A j \in 1..Len(Saved) : Saved[j].id = loan.id => j = k

\* C18: for a committed loan whose plan is still saved, the scheduled payments
\* over the whole term add up to totalCost minus the down payment of the
\* plan, within one cent per payment.
C18_ScheduleConservesCost ==
    \A i \in 1..Len(Loans) : \A k \in 1..Len(Saved) :
        CommittedFrom(Loans[i], k)
            => LET gap == ScheduledTotal(Loans[i])
                            - (Loans[i].totalCost - Saved[k].userInput.downPayment)
                   tolerance == Loans[i].loanTermInMonths * MillsPerCent
               IN  gap <= tolerance /\ -gap <= tolerance

\* the period of the day: the identifier a lease payment records
CurrentPeriod == MonthIdentifier(now, now)

StartedThisMonth(loan) ==
    loan.loanStartDate.y = now.y /\ loan.loanStartDate.m = now.m

\* C11: a Leasing loan is on-track exactly when its lastPaymentMonth is the
\* current period, or it started in the current calendar month and the day is
\* before paymentDayOfMonth; a lease started in an earlier month with no
\* payment recorded for the current period is not on-track.
C11_LeaseOnTrackRule ==
    \A i \in 1..Len(Loans) :
        Loans[i].planType = "Leasing" =>
            LET l == Loans[i]
                paidNow == Has(l, "lastPaymentMonth") /\ l.lastPaymentMonth = CurrentPeriod
            IN  /\ getOnTrackStatus(l, now)
                      <=> (paidNow \/ (StartedThisMonth(l) /\ now.d < l.paymentDayOfMonth))
                /\ (~StartedThisMonth(l) /\ ~paidNow) => ~getOnTrackStatus(l, now)

\* C11 witness: the ledger holds a lease started in an earlier month and not
\* paid for the current period, which is not on-track
C11_Witness ==
    \E i \in 1..Len(Loans) :
        /\ Loans[i].planType = "Leasing"
        /\ ~StartedThisMonth(Loans[i])
        /\ ~getOnTrackStatus(Loans[i], now)

\* monthsElapsed and paymentsDue as the rule writes them
RulePaymentsDue(loan) ==
    LET monthsElapsed == (now.y - loan.loanStartDate.y) * 12
                            + (now.m - loan.loanStartDate.m)
    IN  monthsElapsed + (IF now.d >= loan.paymentDayOfMonth THEN 1 ELSE 0)

\* C12: a Financing loan is on-track exactly when amountLeft <= 0, or
\* initialLoanAmount is unknown, or (initialLoanAmount - amountLeft) /
\* monthlyPayment >= paymentsDue - 1.
C12_FinancingOnTrackRule ==
    \A i \in 1..Len(Loans) :
        Loans[i].planType = "Financing" =>
            LET l == Loans[i]
            IN  getOnTrackStatus(l, now)
                  <=> \/ l.amountLeft <= 0
                      \/ ~Has(l, "initialLoanAmount")
                      \/ /\ l.monthlyPayment > 0
                         /\ l.initialLoanAmount - l.amountLeft
                               >= (RulePaymentsDue(l) - 1) * l.monthlyPayment

\* C12 witness: a Financing loan with a balance left that is behind by more
\* than the tolerance
C12_Witness ==
    \E i \in 1..Len(Loans) :
        /\ Loans[i].planType = "Financing"
        /\ Loans[i].amountLeft > 0
        /\ RulePaymentsDue(Loans[i]) >= 2
        /\ ~getOnTrackStatus(Loans[i], now)

-----------------------------------------------------------------------------
(* Claims checked under SpecTrack *)

\* whole months gone by since the loan started
ElapsedMonths(loan) ==
    (now.y - loan.loanStartDate.y) * 12 + (now.m - loan.loanStartDate.m)
        - (IF now.d < loan.loanStartDate.d THEN 1 ELSE 0)

\* C13: a Financing loan is on-track on the day it is committed, and it is
\* on-track at every later time at which one full payment (monthlyPayment
\* floored to the cent, the amount the form submits) has been made for each
\* month elapsed.
C13_OnePaymentPerMonthOnTrack ==
    \A i \in 1..Len(Loans) :
        Loans[i].planType = "Financing" =>
            /\ (Loans[i].loanStartDate = now /\ paid[i] = 0)
                   => getOnTrackStatus(Loans[i], now)
            /\ paid[i] = ElapsedMonths(Loans[i]) * floorToCent(Loans[i].monthlyPayment)
                   => getOnTrackStatus(Loans[i], now)

\* C14: a Financing loan with a balance on which nothing was paid is on-track
\* before its second due date and not on-track from its second due date on.
C14_OnePeriodOfGrace ==
    \A i \in 1..Len(Loans) :
        (Loans[i].planType = "Financing" /\ Loans[i].amountLeft > 0 /\ paid[i] = 0)
            => (getOnTrackStatus(Loans[i], now)
                  <=> DayNumber(now) < DayNumber(DueDate(Loans[i], 1)))

-----------------------------------------------------------------------------
(* Claims checked under SpecPlan *)

\* C5: with 0 <= downPayment <= price the lease plan of the financing page has
\* monthlyPayment >= 0 and dueAtSigning >= 0.
C5_LeaseNonNegative ==
    (0 <= userData.userInput.downPayment /\ userData.userInput.downPayment <= calc.price)
    => /\ shownLeasingPlan.monthlyPayment >= 0
       /\ shownLeasingPlan.dueAtSigning >= 0

\* C19: the rate of the credit score entered is 0.05 from 760 up, 0.065 from
\* 700, 0.08 from 650, 0.12 from 600 and 0.18 below, for scores outside
\* 300..850 too; a higher score never has a higher rate; the rate is never 0.
C19_RateStepFunction ==
    LET s == userData.userInput.creditScore
        r == getInterestRate(s)
    IN  /\ (s >= 760) => r * 100 = 5 * RateDen
        /\ (700 <= s /\ s < 760) => r * 1000 = 65 * RateDen
        /\ (650 <= s /\ s < 700) => r * 100 = 8 * RateDen
        /\ (600 <= s /\ s < 650) => r * 100 = 12 * RateDen
        /\ (s < 600) => r * 100 = 18 * RateDen
        /\ r > 0
        /\ \A t \in PlanCreditScores : t >= s => getInterestRate(t) <= r

\* C19 witness: the score entered is the threshold 760
C19_Witness == userData.userInput.creditScore = 760

\* C17: no plan the pages compute is NaN or Infinity: the financing-page plan
\* and the card plan have a finite monthlyPayment >= 0 and a finite totalCost,
\* and the affordable price range is finite, whatever the finance controls hold.
C17_NoSilentDivisionByZero ==
    /\ isFinite(shownFinancingPlan.monthlyPayment)
    /\ shownFinancingPlan.monthlyPayment >= 0
    /\ isFinite(shownFinancingPlan.totalCost)
    /\ isFinite(shownCardPlan.monthlyPayment)
    /\ shownCardPlan.monthlyPayment >= 0
    /\ isFinite(shownCardPlan.totalCost)
    /\ isFinite(shownPriceRange.min)
    /\ isFinite(shownPriceRange.max)

-----------------------------------------------------------------------------
(* Claims checked under SpecSched *)

EventsOf(sched, vehicle) == {k \in 1..Len(sched) : sched[k].vehicle = vehicle}

SortedBounded(sched) ==
    /\ \A k \in 1..(Len(sched) - 1) :
          DayNumber(sched[k].date) <= DayNumber(sched[k + 1].date)
    /\ \A i \in 1..Len(Loans) :
          Cardinality(EventsOf(sched, Loans[i])) <= Loans[i].loanTermInMonths
    /\ allPayments(Loans, timelineSettings(Loans), now) = sched

\* C6: the schedule is in ascending order of due date, holds at most
\* loanTermInMonths events of each loan, and the timeline's own computation
\* over the same loans (all visible) and the same day gives the same sequence.
C6_ScheduleSortedBounded == SortedBounded(allFuturePayments(Loans, now))

Interleaved(sched) ==
    /\ Len(Loans) = 2
    /\ EventsOf(sched, Loans[1]) /= {} /\ EventsOf(sched, Loans[2]) /= {}
    /\ PushPayments(Loans, now) /= sched

\* C6 witness: two loans whose events interleave, so that the order of the
\* schedule is not the order in which the events were produced
C6_Witness == Interleaved(allFuturePayments(Loans, now))

\* the month indices of a loan whose due date is not before the day
DueIndices(vehicle) ==
    {i \in 0..(vehicle.loanTermInMonths - 1) :
        DayNumber(MakeDate(vehicle.loanStartDate.y, vehicle.loanStartDate.m + i,
                           vehicle.paymentDayOfMonth)) >= DayNumber(now)}

ExactlyDueIndices(sched) ==
    \A n \in 1..Len(Loans) :
        LET v == Loans[n]
        IN  /\ Cardinality(EventsOf(sched, v)) = Cardinality(DueIndices(v))
            /\ \A i \in DueIndices(v) :
                  \E k \in 1..Len(sched) :
                      /\ sched[k].vehicle = v
                      /\ sched[k].remaining = v.loanTermInMonths - i
                      /\ sched[k].date =
                            MakeDate(v.loanStartDate.y, v.loanStartDate.m + i,
                                     v.paymentDayOfMonth)
            /\ \A k \in EventsOf(sched, v) : DayNumber(sched[k].date) >= DayNumber(now)

\* C7: the events of a loan are exactly one for each monthIndex in
\* 0..loanTermInMonths-1 whose due date (start year, start month + monthIndex,
\* paymentDayOfMonth) is on or after the day, that event carrying
\* remaining = loanTermInMonths - monthIndex; no event is due before the day.
C7_ExactlyDueIndices == ExactlyDueIndices(allFuturePayments(Loans, now))

DueTodayAndDropped(sched) ==
    \E n \in 1..Len(Loans) :
        /\ \E k \in EventsOf(sched, Loans[n]) : sched[k].date = now
        /\ Cardinality(EventsOf(sched, Loans[n])) < Loans[n].loanTermInMonths

\* C7 witness: a loan with a due date on the very day (kept) and due dates
\* before it (dropped)
C7_Witness == DueTodayAndDropped(allFuturePayments(Loans, now))

\* C8: every due date lies in the month start month + monthIndex, on
\* paymentDayOfMonth or, where that month is shorter, on its last day.
C8_DueDateClamped ==
    \A n \in 1..Len(Loans) :
        \A i \in 0..(Loans[n].loanTermInMonths - 1) :
            LET v == Loans[n]
                first == MakeDate(v.loanStartDate.y, v.loanStartDate.m + i, 1)
                due == DueDate(v, i)
            IN  /\ due.y = first.y /\ due.m = first.m
                /\ due.d = Min(v.paymentDayOfMonth, DaysInMonth(first.y, first.m))

-----------------------------------------------------------------------------
(* Claims checked under SpecTabs *)

\* C16: no payment is lost: the amountLeft the database holds for a Financing
\* loan is the initial loan amount less everything submitted against the loan
\* (never below 0), whichever App handled the submissions.
C16_NoLostUpdate ==
    \A i \in 1..Len(db.activeLoans) :
        db.activeLoans[i].planType = "Financing"
            => db.activeLoans[i].amountLeft
                 = Max(0, db.activeLoans[i].initialLoanAmount - paid[i])

-----------------------------------------------------------------------------
(* Further claims checked under Spec *)

\* C21: a loan added by a step has paymentDayOfMonth equal to the day of the
\* month of its loanStartDate, so its first due date is its start date, also
\* when the day changes between the clock reads of the commit.
C21_PaymentDayIsStartDay ==
    [][ Len(Loans') > Len(Loans) =>
          LET new == Loans'[Len(Loans')]
          IN  /\ new.paymentDayOfMonth = new.loanStartDate.d
              /\ DueDate(new, 0) = new.loanStartDate ]_vars

\* C24: no two active loans share an id, whatever was saved, committed, paid,
\* deleted or cleared.
C24_LoanIdsDistinct ==
    \A i \in 1..Len(Loans) : \A j \in 1..Len(Loans) :
        Loans[i].id = Loans[j].id => i = j

\* C24 witness: two loans committed beside the seeded one, the plan of the
\* last one still saved
C24_Witness ==
    /\ Len(Loans) >= 3
    /\ Loans[Len(Loans)].id \in SavedIds

\* an id no loan has
UnknownLoanId == <<"loan-0-none">>

\* C25: handleMakePayment(loanId, amount) leaves every loan with another id
\* as it is, keeps the number and order of the loans and everything else of
\* the user data, changes only amountLeft of a Financing target and only
\* lastPaymentMonth of a Leasing target, and changes nothing when no loan has
\* the id.
C25_PaymentChangesOnlyTarget ==
    \A loanId \in LoanIds \cup {UnknownLoanId}, amt \in AmountInputs,
       monthRead \in SecondRead(now) :
        LET result == handleMakePayment(userData, loanId, amt, now, monthRead)
            after == result.activeLoans
        IN  /\ [result EXCEPT !.activeLoans = Loans] = userData
            /\ Len(after) = Len(Loans)
            /\ \A i \in 1..Len(Loans) :
                  IF Loans[i].id /= loanId THEN after[i] = Loans[i]
                  ELSE IF Loans[i].planType = "Financing"
                       THEN [after[i] EXCEPT !.amountLeft = Loans[i].amountLeft] = Loans[i]
                       ELSE /\ DOMAIN after[i] = DOMAIN Loans[i] \cup {"lastPaymentMonth"}
                            /\ \A f \in DOMAIN Loans[i] \ {"lastPaymentMonth"} :
                                  after[i][f] = Loans[i][f]
            /\ loanId \notin LoanIds => result = userData

\* C25 witness: a payment on a lease has been handled beside another loan
C25_Witness ==
    /\ Len(Loans) >= 2
    /\ \E i \in 1..Len(Loans) : Has(Loans[i], "lastPaymentMonth")
    /\ \E i \in 1..Len(Loans) : Loans[i].planType = "Financing" /\ Loans[i].amountLeft > 0

-----------------------------------------------------------------------------
(* Claims checked under SpecLease *)

SameCalendarMonth(a, b) == a.y = b.y /\ a.m = b.m

\* C22: a lease is on-track with its Pay button disabled once a payment on it
\* has been handled; while no further payment is made it stays so at every
\* later time of that calendar month, and it is not on-track once the clock
\* is in a later calendar month, the next year included.
C22_LeasePaidForTheMonth ==
    [][ \A i \in 1..Len(Loans) :
          Loans[i].planType = "Leasing" =>
              /\ paid'[i] /= paid[i] =>
                    /\ getOnTrackStatus(Loans'[i], now')
                    /\ PayDisabled(Loans'[i], now')
              /\ (paid'[i] = paid[i] /\ Has(Loans[i], "lastPaymentMonth")) =>
                    IF SameCalendarMonth(now, now')
                    THEN /\ getOnTrackStatus(Loans'[i], now') = getOnTrackStatus(Loans[i], now)
                         /\ PayDisabled(Loans'[i], now') = PayDisabled(Loans[i], now)
                    ELSE /\ ~getOnTrackStatus(Loans'[i], now')
                         /\ ~PayDisabled(Loans'[i], now') ]_vars

-----------------------------------------------------------------------------
(* Further claims checked under SpecPlan *)

\* 72 times the monthly payment of the lease formula, in mills, from whole
\* dollars: (cap - residual) / 36 + (cap + residual) * rate / 2400
LeaseFormulaTimes72 ==
    LET priceDollars == calc.price \div MillsPerDollar
        downDollars == userData.userInput.downPayment \div MillsPerDollar
        residualDollars == (priceDollars * 55) \div 100
        capDollars == priceDollars - downDollars
        rate == getInterestRate(userData.userInput.creditScore)
    IN  (capDollars - residualDollars) * 2000
            + ((capDollars + residualDollars) * rate * 3) \div 100

\* C23: the lease plan shown has term 36, residualValue 0.55 * price,
\* moneyFactor rate / 2400, monthlyPayment (price - downPayment - residualValue)
\* / 36 + (price - downPayment + residualValue) * moneyFactor up to the
\* rounding of its two terms, and dueAtSigning = downPayment + monthlyPayment;
\* price 28000 with down payment 3000 has residualValue 15400 and a
\* depreciation of (25000 - 15400) / 36.
C23_LeaseFormula ==
    LET plan == shownLeasingPlan
        rate == getInterestRate(userData.userInput.creditScore)
        gap == plan.monthlyPayment * 72 - LeaseFormulaTimes72
    IN  /\ plan.term = 36
        /\ plan.residualValue % 100 = 0
        /\ (plan.residualValue \div 100) * 20 = (calc.price \div 100) * 11
        /\ plan.moneyFactor.num * 2400 * RateDen = rate * plan.moneyFactor.den
        /\ gap <= 216 /\ -gap <= 216
        /\ plan.dueAtSigning = userData.userInput.downPayment + plan.monthlyPayment
        /\ (calc.price = 28000000 /\ userData.userInput.downPayment = 3000000) =>
              /\ plan.residualValue = 15400000
              /\ plan.monthlyPayment - (40400 * rate) \div 2400 = 9600000 \div 36

\* C23 witness: scenario B, price 28000, down payment 3000, rate 0.05
C23_Witness ==
    /\ calc.price = 28000000
    /\ userData.userInput.downPayment = 3000000
    /\ getInterestRate(userData.userInput.creditScore) = 50
    /\ shownLeasingPlan.residualValue = 15400000

\* C26: for a committed lease the grace condition (started in the current
\* month and the day before paymentDayOfMonth) holds at no time from the
\* commit on, so a lease with no payment recorded for the current period is
\* not on-track, right after the commit too.
C26_NoGraceAfterCommit ==
    \A i \in 1..Len(Loans) :
        Loans[i].planType = "Leasing" =>
            /\ ~(StartedThisMonth(Loans[i]) /\ now.d < Loans[i].paymentDayOfMonth)
            /\ ~(Has(Loans[i], "lastPaymentMonth")
                   /\ Loans[i].lastPaymentMonth = CurrentPeriod)
                  => ~getOnTrackStatus(Loans[i], now)

\* C26 witness: a lease not paid yet, seen on the day of its commit
C26_Witness ==
    \E i \in 1..Len(Loans) :
        /\ Loans[i].planType = "Leasing"
        /\ ~Has(Loans[i], "lastPaymentMonth")
        /\ Loans[i].loanStartDate = now
        /\ ~getOnTrackStatus(Loans[i], now)

\* C28: the plan on a vehicle card and the plan of the financing page have
\* the same monthlyPayment, totalCost and loanAmount for every price, down
\* payment, loan term and rate of the rate model
C28_CalculatorsAgree ==
    /\ shownCardPlan.monthlyPayment = shownFinancingPlan.monthlyPayment
    /\ shownCardPlan.totalCost = shownFinancingPlan.totalCost
    /\ shownCardPlan.loanAmount = shownFinancingPlan.loanAmount

\* a changed input with a positive loan amount and a finite payment on the card
C28_Witness ==
    /\ userData.userInput /= getDefaultUserData.userInput
    /\ calc.price = 28000000
    /\ userData.userInput.downPayment = 3000000
    /\ userData.userInput.loanTerm = 15
    /\ userData.userInput.creditScore = 599
    /\ shownCardPlan.monthlyPayment > 0
    /\ isFinite(shownCardPlan.totalCost)

-----------------------------------------------------------------------------
(* Claims checked under SpecSession *)

\* C27: the record of a registered user stays in the database with its
\* password, and its data changes only in a step after which that user is the
\* current user, and only to the userData of the App, taken from that user's
\* own record: never to the data of a guest, of a sample or of another user.
C27_OnlyOwnDataPersisted ==
    [][ \A u \in DOMAIN users :
          /\ u \in DOMAIN users'
          /\ users'[u].password_plaintext = users[u].password_plaintext
          /\ users'[u].data /= users[u].data =>
                /\ currentUser' = u
                /\ users'[u].data = userData'
                /\ origin' = u ]_vars

\* C27 witness: a registered user with a loan is logged in, with a session,
\* and the record of that user holds an edit made in the App
C27_Witness ==
    /\ currentUser = "voyager"
    /\ session = "voyager"
    /\ users["voyager"].data /= initializeDatabase["voyager"].data
    /\ users["voyager"].data = userData
    /\ users["voyager"].data.activeLoans /= <<>>

\* C30: createUser with a username the database has fails and leaves the
\* users as they are; login succeeds exactly when the username is in the
\* database with that password, then the session is that username, and a
\* failed login leaves the session as it is; initializeDatabase on a
\* database that exists changes nothing.
C30_AccountStore ==
    /\ \A u \in Usernames, pw \in Passwords :
          LET created == createUser(users, u, pw)
              result == login(users, session, u, pw)
          IN  /\ u \in DOMAIN users => (~created.success /\ created.users = users)
              /\ result.success
                    <=> (u \in DOMAIN users /\ users[u].password_plaintext = pw)
              /\ result.success => result.session = u
              /\ ~result.success => result.session = session
    /\ initializeDatabaseOn(users) = users

\* C30 witness: a user has signed up and is logged in, and the record of a
\* seeded user is no longer the seeded one
C30_Witness ==
    /\ "nova" \in DOMAIN users
    /\ session = "nova"
    /\ users["voyager"].data /= initializeDatabase["voyager"].data

-----------------------------------------------------------------------------
(* The auto-close timer of the payment modal, checked under Spec *)

\* C29: a timer started by a submitted payment closes only the modal session
\* of that payment: when a timer fires while the modal is open and no payment
\* was submitted in it since it was opened, the modal stays open
C29_TimerClosesOwnSession ==
    [][ (timers' < timers /\ modal.isOpen /\ paymentStatus = "idle")
            => modal' = modal ]_vars

====
